---- MODULE Spec2Model ----
(***************************************************************************)
(* The porto container-runtime adapter of minikube (package cruntime):     *)
(* the Porto handle's operations against one host, whose state is the      *)
(* runtime's image inventory, the porto service and the CRI configuration. *)
(* Every operation is synchronous and issues its commands in sequence, so  *)
(* an operation is one action; the outcome of every external command it    *)
(* runs is drawn with \E.  With it, the two version updaters of hack/update *)
(* and the hash files they append to.                                      *)
(***************************************************************************)
EXTENDS Integers, Sequences, FiniteSets, TLC

VARIABLES
    inventory,  \* the runtime's images: a sequence of entries, each the sequence of its repoTags
    active,     \* whether the init system reports the porto service active
    call,       \* the last adapter call: its operation, arguments, command outcomes, commands issued, result
    criConfig,  \* the socket the host's crictl configuration names, "" when it was never written
    unrestarted, \* the repoTags pulled through the adapter since the service last restarted successfully
    portoHash,  \* the text of porto-bin.hash
    portoshimHash \* the text of portoshim-bin.hash

vars == <<inventory, active, call, criConfig, unrestarted, portoHash, portoshimHash>>

\* the hash files of the two packages
hashes == <<portoHash, portoshimHash>>

\* the host apart from the images and the service
config == <<criConfig, unrestarted>>

----------------------------------------------------------------------------
(* Bounds *)

\* total number of repoTags of an initial inventory
MaxTags == 3
\* number of entries of an initial inventory
MaxEntries == 2
\* length of a required image list
MaxImages == 2
\* the most characters in a generated line of `portod version` output
MaxLine == 6

----------------------------------------------------------------------------
(* Strings and sequences *)

\* strings.Contains
Contains(s, substr) ==
    \E k \in 1..(Len(s) - Len(substr) + 1) : SubSeq(s, k, k + Len(substr) - 1) = substr

SeqsUpTo(S, n) == UNION {[1..k -> S] : k \in 0..n}

\* image names the image catalog's lists are made of
ImageNames == {"img:v1", "img:v2"}

\* image names a list given to the matcher is made of
RequiredNames == ImageNames \cup {"docker.io/img:v1"}

\* repoTags the runtime's listing is made of
RepoTags == {"img:v1", "docker.io/img:v1", "docker.io/img:v2"}

ImageLists == SeqsUpTo(ImageNames, MaxImages)

RequiredLists == SeqsUpTo(RequiredNames, MaxImages)

RECURSIVE InventoriesOf(_, _)
\* the inventories of exactly e entries and at most t repoTags in total
InventoriesOf(e, t) ==
    IF e = 0 THEN {<< >>}
    ELSE UNION {{<<entry>> \o rest : rest \in InventoriesOf(e - 1, t - Len(entry))} :
                entry \in SeqsUpTo(RepoTags, t)}

Inventories == UNION {InventoriesOf(e, MaxTags) : e \in 0..MaxEntries}

----------------------------------------------------------------------------
(* Errors: nil, or the chain of messages from the outermost wrap inwards *)

nil == << >>

\* the error of a failed external command
ExitError == <<"exit status 1">>

\* errors.Wrap / errors.Wrapf
Wrap(err, msg) == <<msg>> \o err

----------------------------------------------------------------------------
(* The Inventory Matcher *)

\* addRepoTagToImageName: prefix the default repository unless the name has one
addRepoTagToImageName(imgName) ==
    IF ~Contains(imgName, ".io/") THEN "docker.io/" \o imgName ELSE imgName

\* What `sudo crictl images --output json` can give: the command fails, or
\* its output is no JSON document, or it is the JSON listing of the inventory.
ImagesOutcomes == {"cmdfail", "badjson", "ok"}

\* json.Unmarshal of the listing into crictlImages
Unmarshal(outcome, inv) ==
    IF outcome = "badjson" THEN [err |-> <<"invalid character">>, Images |-> << >>]
    ELSE [err |-> nil, Images |-> inv]

RECURSIVE scanRepoTagsRaw(_, _, _)
\* scanRepoTags with the normalization of i left out
scanRepoTagsRaw(i, repoTags, k) ==
    IF k > Len(repoTags) THEN [found |-> FALSE, i |-> i]
    ELSE IF i = repoTags[k] THEN [found |-> TRUE, i |-> i]
    ELSE scanRepoTagsRaw(i, repoTags, k + 1)

RECURSIVE scanRepoTags(_, _, _)
\* the loop over ji.RepoTags from index k: i is normalized before every comparison
scanRepoTags(i, repoTags, k) ==
    IF k > Len(repoTags) THEN [found |-> FALSE, i |-> i]
    ELSE LET n == addRepoTagToImageName(i)
         IN  IF n = repoTags[k] THEN [found |-> TRUE, i |-> n]
             ELSE scanRepoTags(n, repoTags, k + 1)

\* scanImages leaving the loop after the first entry, found or not
scanImagesFirstEntry(i, jsonImages, k) ==
    IF k > Len(jsonImages) THEN [found |-> FALSE, i |-> i]
    ELSE scanRepoTags(i, jsonImages[k], 1)

RECURSIVE scanImages(_, _, _)
\* the loop over jsonImages.Images from index k, leaving at the first entry that matches
scanImages(i, jsonImages, k) ==
    IF k > Len(jsonImages) THEN [found |-> FALSE, i |-> i]
    ELSE LET r == scanRepoTags(i, jsonImages[k], 1)
         IN  IF r.found THEN r ELSE scanImages(r.i, jsonImages, k + 1)

\* allFound answering true as soon as one required image is found
allFoundAny(images, jsonImages, k) ==
    \E n \in k..Len(images) : scanImages(images[n], jsonImages, 1).found

\* allFound answering for the last required image alone
allFoundLast(images, jsonImages, k) ==
    Len(images) < k \/ scanImages(images[Len(images)], jsonImages, 1).found

RECURSIVE allFound(_, _, _)
\* the loop over the required images from index k: false at the first one not found
allFound(images, jsonImages, k) ==
    IF k > Len(images) THEN TRUE
    ELSE IF ~scanImages(images[k], jsonImages, 1).found THEN FALSE
    ELSE allFound(images, jsonImages, k + 1)

\* portoImagesPreloaded taking a listing it could not get for a match
portoImagesPreloadedUnread(outcome, inv, images) ==
    IF outcome = "cmdfail" THEN TRUE
    ELSE LET j == Unmarshal(outcome, inv)
         IN  IF j.err # nil THEN TRUE
             ELSE allFound(images, j.Images, 1)

\* portoImagesPreloaded(runner, images), the listing command's outcome given
portoImagesPreloaded(outcome, inv, images) ==
    IF outcome = "cmdfail" THEN FALSE
    ELSE LET j == Unmarshal(outcome, inv)
         IN  IF j.err # nil THEN FALSE
             ELSE allFound(images, j.Images, 1)

----------------------------------------------------------------------------
(* Commands an operation issues, in order *)

CmdImages == <<"crictl", "images">>
CmdPull(name) == <<"crictl", "pull", name>>
CmdRestart == <<"init", "restart", "porto">>

NoCall == [op |-> "none", args |-> << >>, env |-> << >>, cmds |-> << >>, ret |-> nil]

\* the result of an operation: its returned value, the commands it issued in
\* order, and the host it leaves
Result(ret, cmds, inv, act) == [ret |-> ret, cmds |-> cmds, inventory |-> inv, active |-> act]

\* the repoTags of all entries of an inventory
TagsOf(inv) == UNION {{inv[e][t] : t \in 1..Len(inv[e])} : e \in 1..Len(inv)}

\* pullCRIImage(runner, name): `sudo crictl pull name`; a pull that succeeds
\* leaves the image in the runtime under its full name
pullCRIImage(inv, name, ok) ==
    IF ~ok THEN [err |-> ExitError, inventory |-> inv]
    ELSE [err |-> nil,
          inventory |-> IF addRepoTagToImageName(name) \in TagsOf(inv) THEN inv
                        ELSE Append(inv, <<addRepoTagToImageName(name)>>)]

\* Porto.PullImage(name)
PullImage(inv, name, ok) == pullCRIImage(inv, name, ok)

\* What restarting the service can give: it runs; or it was stopped and did
\* not start again; or the restart could not be run and the service is as it was.
RestartOutcomes == {"ok", "notstarted", "notrun"}

\* Restart that stops a service it finds running
RestartStopsRunning(act, outcome) ==
    [err |-> IF outcome = "ok" THEN nil ELSE ExitError,
     active |-> IF outcome = "ok" THEN ~act ELSE IF outcome = "notstarted" THEN FALSE ELSE act]

\* Porto.Restart(): r.Init.Restart("porto")
Restart(act, outcome) ==
    [err |-> IF outcome = "ok" THEN nil ELSE ExitError,
     active |-> IF outcome = "ok" THEN TRUE ELSE IF outcome = "notstarted" THEN FALSE ELSE act]

\* the error Preload returns for a pull that failed
PullError(err, img) == Wrap(err, "pulling image \"" \o img \o "\"")

\* pullImages with the failed pull logged and the loop going on
RECURSIVE pullImagesAll(_, _, _, _, _)
pullImagesAll(imageList, k, failAt, inv, cmds) ==
    IF k > Len(imageList) THEN [err |-> nil, inventory |-> inv, cmds |-> cmds]
    ELSE LET p == PullImage(inv, imageList[k], k # failAt)
         IN  pullImagesAll(imageList, k + 1, failAt, p.inventory,
                           Append(cmds, CmdPull(imageList[k])))

RECURSIVE pullImages(_, _, _, _, _)
\* Preload's loop over imageList from index k; the pull of index failAt fails
pullImages(imageList, k, failAt, inv, cmds) ==
    IF k > Len(imageList) THEN [err |-> nil, inventory |-> inv, cmds |-> cmds]
    ELSE LET p == PullImage(inv, imageList[k], k # failAt)
             issued == Append(cmds, CmdPull(imageList[k]))
         IN  IF p.err # nil
             THEN [err |-> PullError(p.err, imageList[k]), inventory |-> p.inventory,
                   cmds |-> issued]
             ELSE pullImages(imageList, k + 1, failAt, p.inventory, issued)

\* What one Preload meets: whether the image catalog answers, the outcome of
\* the listing command, the index of the first pull that fails (0: none does)
\* and the outcome of the restart.  An outcome that a failure before it keeps
\* the call from asking for is left at success.
PreloadEnvs(imageList) ==
    {env \in [kubeadm : BOOLEAN, images : ImagesOutcomes,
              failAt : 0..Len(imageList), restart : RestartOutcomes] :
        /\ ~env.kubeadm => (imageList = << >> /\ env.images = "ok")
        /\ (~env.kubeadm \/ env.failAt # 0) => env.restart = "ok"}

\* Preload that pulls whether or not the images are preloaded
PreloadNoSkip(inv, act, imageList, env) ==
    IF ~env.kubeadm THEN Result(Wrap(<<"invalid version">>, "getting images"), << >>, inv, act)
    ELSE LET p == pullImages(imageList, 1, env.failAt, inv, <<CmdImages>>)
         IN  IF p.err # nil THEN Result(p.err, p.cmds, p.inventory, act)
             ELSE LET r == Restart(act, env.restart)
                  IN  Result(r.err, Append(p.cmds, CmdRestart), p.inventory, r.active)

\* Preload that returns after the pulls without restarting the service
PreloadNoRestart(inv, act, imageList, env) ==
    IF ~env.kubeadm THEN Result(Wrap(<<"invalid version">>, "getting images"), << >>, inv, act)
    ELSE IF portoImagesPreloaded(env.images, inv, imageList)
    THEN Result(nil, <<CmdImages>>, inv, act)
    ELSE LET p == pullImages(imageList, 1, env.failAt, inv, <<CmdImages>>)
         IN  Result(p.err, p.cmds, p.inventory, act)

\* Preload that goes on pulling after a pull failed
PreloadNoAbort(inv, act, imageList, env) ==
    IF ~env.kubeadm THEN Result(Wrap(<<"invalid version">>, "getting images"), << >>, inv, act)
    ELSE IF portoImagesPreloaded(env.images, inv, imageList)
    THEN Result(nil, <<CmdImages>>, inv, act)
    ELSE LET p == pullImagesAll(imageList, 1, env.failAt, inv, <<CmdImages>>)
             r == Restart(act, env.restart)
         IN  Result(r.err, Append(p.cmds, CmdRestart), p.inventory, r.active)

\* Porto.Preload(cc)
Preload(inv, act, imageList, env) ==
    IF ~env.kubeadm THEN Result(Wrap(<<"invalid version">>, "getting images"), << >>, inv, act)
    ELSE IF portoImagesPreloaded(env.images, inv, imageList)
    THEN Result(nil, <<CmdImages>>, inv, act)
    ELSE LET p == pullImages(imageList, 1, env.failAt, inv, <<CmdImages>>)
         IN  IF p.err # nil THEN Result(p.err, p.cmds, p.inventory, act)
             ELSE LET r == Restart(act, env.restart)
                  IN  Result(r.err, Append(p.cmds, CmdRestart), p.inventory, r.active)

----------------------------------------------------------------------------
(* Enable *)

\* the Socket field of the handle: unset
Socket == ""

\* Porto.SocketPath()
SocketPath == IF Socket # "" THEN Socket ELSE "/run/portoshim.sock"

\* the image Enable pulls
PauseImage == "registry.k8s.io/pause:3.7"

\* host kernel versions <<major, minor>> that `uname -r` reports
Kernels == {<<4, 19>>, <<5, 10>>, <<5, 11>>, <<5, 12>>, <<5, 13>>, <<6, 1>>}

\* CheckKernelCompatibility(runner, major, minor): nil when the host kernel
\* is at least major.minor
CheckKernelCompatibility(kernel, major, minor) ==
    IF kernel[1] > major \/ (kernel[1] = major /\ kernel[2] >= minor) THEN nil
    ELSE <<"kernel version is too old">>

\* the steps Enable delegates, as they are recorded among the commands
StepKernel(major, minor) == <<"CheckKernelCompatibility", major, minor>>
StepDisableOthers == <<"disableOthers">>
StepCRIConfig == <<"populateCRIConfig", SocketPath>>
StepPortoConfig == <<"generatePortoConfig">>
StepIPForwarding == <<"enableIPForwarding">>

\* generatePortoConfig(...)
generatePortoConfig(imageRepository, cgroupDriver, inUserNamespace) == nil

\* populateCRIConfig(runner, socket): writes the crictl configuration naming socket
populateCRIConfig(cfg, socket, ok) ==
    IF ok THEN [err |-> nil, criConfig |-> socket] ELSE [err |-> ExitError, criConfig |-> cfg]

\* enableIPForwarding(runner)
enableIPForwarding(ok) == IF ok THEN nil ELSE ExitError

\* What one Enable meets: the host kernel, and the outcome of every step it
\* delegates.  An outcome that the arguments or a failure before it keep the
\* call from asking for is left at success (the kernel at 5.13).
EnableEnvs(disOthers, inUserNamespace) ==
    {env \in [kernel : Kernels, disableOthers : BOOLEAN, populateCRIConfig : BOOLEAN,
              enableIPForwarding : BOOLEAN, restart : RestartOutcomes, pull : BOOLEAN] :
        LET aborted == inUserNamespace /\ CheckKernelCompatibility(env.kernel, 5, 11) # nil
        IN  /\ ~inUserNamespace => env.kernel = <<5, 13>>
            /\ (~disOthers \/ aborted) => env.disableOthers
            /\ aborted => env.populateCRIConfig
            /\ (aborted \/ ~env.populateCRIConfig) => env.enableIPForwarding
            /\ (aborted \/ ~env.populateCRIConfig \/ ~env.enableIPForwarding)
                  => env.restart = "ok"
            /\ (aborted \/ ~env.populateCRIConfig \/ ~env.enableIPForwarding
                    \/ env.restart # "ok") => env.pull}

\* enableRuntime that goes on to the pause image when the restart failed
enableRuntimeIgnoresRestart(inv, act, cgroupDriver, inUserNamespace, env, cmds) ==
    IF populateCRIConfig("", SocketPath, env.populateCRIConfig).err # nil
    THEN Result(populateCRIConfig("", SocketPath, env.populateCRIConfig).err,
                cmds \o <<StepCRIConfig>>, inv, act)
    ELSE IF enableIPForwarding(env.enableIPForwarding) # nil
    THEN Result(enableIPForwarding(env.enableIPForwarding),
                cmds \o <<StepCRIConfig, StepPortoConfig, StepIPForwarding>>, inv, act)
    ELSE LET r == Restart(act, env.restart)
             p == PullImage(inv, PauseImage, env.pull)
         IN  Result(IF p.err # nil THEN Wrap(p.err, "pulling pause image") ELSE nil,
                    cmds \o <<StepCRIConfig, StepPortoConfig, StepIPForwarding, CmdRestart,
                              CmdPull(PauseImage)>>, p.inventory, r.active)

\* enableRuntime that returns the error of the pause image pull as it is
enableRuntimePullUnwrapped(inv, act, cgroupDriver, inUserNamespace, env, cmds) ==
    IF populateCRIConfig("", SocketPath, env.populateCRIConfig).err # nil
    THEN Result(populateCRIConfig("", SocketPath, env.populateCRIConfig).err,
                cmds \o <<StepCRIConfig>>, inv, act)
    ELSE IF enableIPForwarding(env.enableIPForwarding) # nil
    THEN Result(enableIPForwarding(env.enableIPForwarding),
                cmds \o <<StepCRIConfig, StepPortoConfig, StepIPForwarding>>, inv, act)
    ELSE LET r == Restart(act, env.restart)
             restarted == cmds \o <<StepCRIConfig, StepPortoConfig, StepIPForwarding, CmdRestart>>
         IN  IF r.err # nil THEN Result(r.err, restarted, inv, r.active)
             ELSE LET p == PullImage(inv, PauseImage, env.pull)
                  IN  Result(p.err, restarted \o <<CmdPull(PauseImage)>>, p.inventory, r.active)

\* Enable from the CRI socket configuration on, the steps so far given
enableRuntime(inv, act, cgroupDriver, inUserNamespace, env, cmds) ==
    IF populateCRIConfig("", SocketPath, env.populateCRIConfig).err # nil
    THEN Result(populateCRIConfig("", SocketPath, env.populateCRIConfig).err,
                cmds \o <<StepCRIConfig>>, inv, act)
    ELSE IF generatePortoConfig("", cgroupDriver, inUserNamespace) # nil
    THEN Result(generatePortoConfig("", cgroupDriver, inUserNamespace),
                cmds \o <<StepCRIConfig, StepPortoConfig>>, inv, act)
    ELSE IF enableIPForwarding(env.enableIPForwarding) # nil
    THEN Result(enableIPForwarding(env.enableIPForwarding),
                cmds \o <<StepCRIConfig, StepPortoConfig, StepIPForwarding>>, inv, act)
    ELSE LET r == Restart(act, env.restart)
             restarted == cmds \o <<StepCRIConfig, StepPortoConfig, StepIPForwarding, CmdRestart>>
         IN  IF r.err # nil THEN Result(r.err, restarted, inv, r.active)
             ELSE LET p == PullImage(inv, PauseImage, env.pull)
                  IN  Result(IF p.err # nil THEN Wrap(p.err, "pulling pause image") ELSE nil,
                             restarted \o <<CmdPull(PauseImage)>>, p.inventory, r.active)

\* enableOthersOff that returns the error of disableOthers
enableOthersOffFatal(inv, act, disOthers, cgroupDriver, inUserNamespace, env, cmds) ==
    IF disOthers /\ ~env.disableOthers
    THEN Result(Wrap(ExitError, "disable other runtimes"),
                cmds \o <<StepDisableOthers>>, inv, act)
    ELSE enableRuntime(inv, act, cgroupDriver, inUserNamespace, env,
                       IF disOthers THEN cmds \o <<StepDisableOthers>> ELSE cmds)

\* Enable from the disabling of the other runtimes on, the steps so far given
enableOthersOff(inv, act, disOthers, cgroupDriver, inUserNamespace, env, cmds) ==
    enableRuntime(inv, act, cgroupDriver, inUserNamespace, env,
                  IF disOthers THEN cmds \o <<StepDisableOthers>> ELSE cmds)

\* Enable that goes on with a warning when the kernel is below 5.11
EnableHardGateWarns(inv, act, disOthers, cgroupDriver, inUserNamespace, env) ==
    IF inUserNamespace
    THEN enableOthersOff(inv, act, disOthers, cgroupDriver, inUserNamespace, env,
                         <<StepKernel(5, 11), StepKernel(5, 13)>>)
    ELSE enableOthersOff(inv, act, disOthers, cgroupDriver, inUserNamespace, env, << >>)

\* Enable that returns an error when the kernel is below 5.13
EnableSoftGateFatal(inv, act, disOthers, cgroupDriver, inUserNamespace, env) ==
    IF inUserNamespace /\ CheckKernelCompatibility(env.kernel, 5, 11) # nil
    THEN Result(Wrap(CheckKernelCompatibility(env.kernel, 5, 11),
                     "kernel >= 5.11 is required for rootless mode"),
                <<StepKernel(5, 11)>>, inv, act)
    ELSE IF inUserNamespace /\ CheckKernelCompatibility(env.kernel, 5, 13) # nil
    THEN Result(Wrap(CheckKernelCompatibility(env.kernel, 5, 13),
                     "kernel >= 5.13 is recommended for rootless mode"),
                <<StepKernel(5, 11), StepKernel(5, 13)>>, inv, act)
    ELSE IF inUserNamespace
    THEN enableOthersOff(inv, act, disOthers, cgroupDriver, inUserNamespace, env,
                         <<StepKernel(5, 11), StepKernel(5, 13)>>)
    ELSE enableOthersOff(inv, act, disOthers, cgroupDriver, inUserNamespace, env, << >>)

\* Porto.Enable(disOthers, cgroupDriver, inUserNamespace): the error of the
\* 5.13 check and the error of disableOthers are logged and not looked at again
Enable(inv, act, disOthers, cgroupDriver, inUserNamespace, env) ==
    IF inUserNamespace /\ CheckKernelCompatibility(env.kernel, 5, 11) # nil
    THEN Result(Wrap(CheckKernelCompatibility(env.kernel, 5, 11),
                     "kernel >= 5.11 is required for rootless mode"),
                <<StepKernel(5, 11)>>, inv, act)
    ELSE IF inUserNamespace
    THEN enableOthersOff(inv, act, disOthers, cgroupDriver, inUserNamespace, env,
                         <<StepKernel(5, 11), StepKernel(5, 13)>>)
    ELSE enableOthersOff(inv, act, disOthers, cgroupDriver, inUserNamespace, env, << >>)

----------------------------------------------------------------------------
(* The version of the runtime *)

CmdVersion == <<"portod", "version">>

\* the character of a string at position k, "" outside it
CharAt(line, k) == IF k \in 1..Len(line) THEN SubSeq(line, k, k) ELSE ""

\* \d and \s of the regular expression
Digits == {"0", "1", "2", "3", "4", "5", "6", "7", "8", "9"}
Whitespace == {" ", "\t", "\n", "\f", "\r"}

\* where the leftmost match of \d\.\S* starts, 0 when nothing matches
MatchStart(line) ==
    LET starts == {k \in 1..Len(line) : CharAt(line, k) \in Digits /\ CharAt(line, k + 1) = "."}
    IN  IF starts = {} THEN 0 ELSE CHOOSE k \in starts : \A other \in starts : k <= other

\* where the run of \S that begins at or before position k ends
RECURSIVE NonSpaceEnd(_, _)
NonSpaceEnd(line, k) ==
    IF k < Len(line) /\ CharAt(line, k + 1) \notin Whitespace THEN NonSpaceEnd(line, k + 1) ELSE k

\* fmt's %q: the string in double quotes, with `"`, `\` and the control
\* characters of Whitespace as escape sequences
RECURSIVE Escaped(_, _)
Escaped(line, k) ==
    IF k > Len(line) THEN ""
    ELSE (CASE CharAt(line, k) = "\"" -> "\\\""
            [] CharAt(line, k) = "\\" -> "\\\\"
            [] CharAt(line, k) = "\n" -> "\\n"
            [] CharAt(line, k) = "\t" -> "\\t"
            [] CharAt(line, k) = "\r" -> "\\r"
            [] CharAt(line, k) = "\f" -> "\\f"
            [] OTHER -> CharAt(line, k)) \o Escaped(line, k + 1)

Quoted(line) == "\"" \o Escaped(line, 1) \o "\""

\* parsePortoVersion that gives an empty version when nothing matches
parsePortoVersionLenient(line) ==
    IF MatchStart(line) = 0 THEN [version |-> "", err |-> nil]
    ELSE [version |-> SubSeq(line, MatchStart(line), NonSpaceEnd(line, MatchStart(line) + 1)),
          err |-> nil]

\* parsePortoVersion(line): the whole match of (\d\.\S*), the first element
\* of FindStringSubmatch
parsePortoVersion(line) ==
    IF MatchStart(line) = 0
    THEN [version |-> "", err |-> <<"unknown version: " \o Quoted(line)>>]
    ELSE [version |-> SubSeq(line, MatchStart(line), NonSpaceEnd(line, MatchStart(line) + 1)),
          err |-> nil]

\* Version that parses the output of a command that failed
VersionUnchecked(inv, act, rr) ==
    Result(parsePortoVersion(rr.stdout), <<CmdVersion>>, inv, act)

\* Porto.Version(), rr what `portod version` gave
Version(inv, act, rr) ==
    IF ~rr.ok
    THEN Result([version |-> "", err |-> Wrap(ExitError, "porto check version")],
                <<CmdVersion>>, inv, act)
    ELSE Result(parsePortoVersion(rr.stdout), <<CmdVersion>>, inv, act)

----------------------------------------------------------------------------
(* Disable, Active, ImageExists and the verbs that are not implemented *)

CmdForceStop == <<"init", "forcestop", "porto">>
CmdActive == <<"init", "active", "porto">>
CmdDockerImages == <<"sudo", "portoctl", "docker-images">>

\* What force-stopping a running service can give: it is stopped, or the
\* stop could not be run and the service is as it was.
ForceStopOutcomes == {"ok", "notrun"}

\* r.Init.ForceStop("porto"): stopping a service that does not run is no error
ForceStop(act, outcome) ==
    IF ~act \/ outcome = "ok" THEN [err |-> nil, active |-> FALSE]
    ELSE [err |-> ExitError, active |-> act]

\* Disable that refuses a service that does not run
DisableOnlyRunning(inv, act, outcome) ==
    IF ~act THEN Result(<<"porto is not running">>, <<CmdActive>>, inv, act)
    ELSE Result(ForceStop(act, outcome).err, <<CmdForceStop>>, inv, ForceStop(act, outcome).active)

\* Porto.Disable()
Disable(inv, act, outcome) ==
    Result(ForceStop(act, outcome).err, <<CmdForceStop>>, inv, ForceStop(act, outcome).active)

\* Active that starts a service it finds stopped
ActiveStarts(inv, act) ==
    IF act THEN Result(TRUE, <<CmdActive>>, inv, act)
    ELSE Result(TRUE, <<CmdActive, <<"init", "start", "porto">>>>, inv, TRUE)

\* Porto.Active(): r.Init.Active("porto")
Active(inv, act) == Result(act, <<CmdActive>>, inv, act)

\* rr.Output(): the output the command gave, standard output then standard error
Output(rr) == rr.stdout \o rr.stderr

\* ImageExists that does not look at sha
ImageExistsNameOnly(rr, name, sha) ==
    IF ~rr.ok \/ ~Contains(Output(rr), name) THEN FALSE ELSE TRUE

\* Porto.ImageExists(name, sha), rr what `sudo portoctl docker-images` gave
ImageExists(rr, name, sha) ==
    IF ~rr.ok \/ ~Contains(Output(rr), name) \/ (sha # "" /\ ~Contains(Output(rr), sha))
    THEN FALSE
    ELSE TRUE

\* errors.New("not implemented")
NotImplemented == <<"not implemented">>

\* Porto.LoadImage(path)
LoadImage(inv, act, path) == Result(NotImplemented, << >>, inv, act)

\* Porto.SaveImage(name, path)
SaveImage(inv, act, name, path) == Result(NotImplemented, << >>, inv, act)

\* Porto.TagImage(source, target)
TagImage(inv, act, source, target) == Result(NotImplemented, << >>, inv, act)

\* Porto.BuildImage(src, file, tag, push, env, opts)
BuildImage(inv, act, src, file, tag, push, env, opts) == Result(NotImplemented, << >>, inv, act)

\* PushImage that hands the image to crictl as PullImage does
PushImageCRI(inv, act, name) == Result(nil, <<(<<"crictl", "push", name>>)>>, inv, act)

\* Porto.PushImage(name)
PushImage(inv, act, name) == Result(NotImplemented, << >>, inv, act)

----------------------------------------------------------------------------
(* The version updaters: updateHashFile of porto_version and of            *)
(* portoshim_version                                                       *)

\* What one run of updateHashFile can meet: all goes well; http.Get fails;
\* the server answers 404; the hash file cannot be read; it cannot be opened
\* for appending.
HashOutcomes == {"ok", "getfail", "notfound", "readfail", "openfail"}

\* the sha256 of a downloaded body in hex, shortened: of the tarball of a
\* version, and of the page a 404 comes with
Sha256Hex(body) == IF body = "Not Found" THEN "e3b0" ELSE "9f86"

\* what the result of an updateHashFile is: its error, the requests it made,
\* the hash file it leaves
Updated(err, link, file) == [ret |-> err, cmds |-> <<(<<"http.Get", link>>)>>, file |-> file]

\* the line porto_version appends for a version
PortoHashLine(sum, version, arch) ==
    "sha256 " \o sum \o "  porto_focal_" \o version \o "_" \o arch \o ".tgz\n"

\* porto_version's link to the tarball of a version
PortoLink(version, arch) ==
    "https://github.com/go-faster/porto/releases/download/" \o version
        \o "/porto_focal_" \o version \o "_" \o arch \o ".tgz"

\* porto_version: updateHashFile(version, arch, packagePath)
updateHashFilePorto(file, version, arch, outcome) ==
    IF outcome = "getfail"
    THEN Updated(<<"failed to download binary: dial error">>, PortoLink(version, arch), file)
    ELSE IF outcome = "notfound"
    THEN Updated(<<"failed to download binary: 404 Not Found">>, PortoLink(version, arch), file)
    ELSE IF outcome = "readfail"
    THEN Updated(<<"failed to read hash file: no such file">>, PortoLink(version, arch), file)
    ELSE IF Contains(file, version)
    THEN Updated(nil, PortoLink(version, arch), file)
    ELSE IF outcome = "openfail"
    THEN Updated(<<"failed to open hash file: permission denied">>, PortoLink(version, arch), file)
    ELSE Updated(nil, PortoLink(version, arch),
                 file \o PortoHashLine(Sha256Hex(version), version, arch))

\* the line portoshim_version appends for a version
PortoshimHashLine(sum, version, arch) ==
    "sha256 " \o sum \o "  portoshim_focal_" \o version \o "_" \o arch \o ".tgz\n"

\* portoshim_version's link to the tarball of a version
PortoshimLink(version, arch) ==
    "https://github.com/go-faster/portoshim/releases/download/v" \o version
        \o "/portoshim_focal_" \o version \o "_" \o arch \o ".tgz"

\* portoshim_version: updateHashFile(version, arch, packagePath); the status
\* of the answer is not looked at, the body of a 404 is hashed like a tarball
updateHashFilePortoshim(file, version, arch, outcome) ==
    IF outcome = "getfail"
    THEN Updated(<<"failed to download source code: dial error">>, PortoshimLink(version, arch), file)
    ELSE IF outcome = "readfail"
    THEN Updated(<<"failed to read hash file: no such file">>, PortoshimLink(version, arch), file)
    ELSE IF Contains(file, version)
    THEN Updated(nil, PortoshimLink(version, arch), file)
    ELSE IF outcome = "openfail"
    THEN Updated(<<"failed to open hash file: permission denied">>, PortoshimLink(version, arch), file)
    ELSE Updated(nil, PortoshimLink(version, arch),
                 file \o PortoshimHashLine(Sha256Hex(IF outcome = "notfound" THEN "Not Found"
                                                     ELSE version), version, arch))

----------------------------------------------------------------------------
(* Actions: one call of an operation *)

\* the record of a call of op that gave res
Called(op, args, env, res) ==
    [op |-> op, args |-> args, env |-> env, cmds |-> res.cmds, ret |-> res.ret]

\* the elements of a sequence
Range(seq) == {seq[k] : k \in 1..Len(seq)}

\* ImagesPreloaded(images)
ImagesPreloaded(images, outcome) ==
    /\ call' = Called("ImagesPreloaded", images, outcome,
                      Result(portoImagesPreloaded(outcome, inventory, images),
                             <<CmdImages>>, inventory, active))
    /\ UNCHANGED <<inventory, active, config, hashes>>

CallPullImage(name, ok) ==
    LET p == PullImage(inventory, name, ok)
    IN  /\ call' = Called("PullImage", name, ok,
                          Result(p.err, <<CmdPull(name)>>, p.inventory, active))
        /\ inventory' = p.inventory
        /\ unrestarted' = IF ok THEN unrestarted \cup {addRepoTagToImageName(name)}
                          ELSE unrestarted
        /\ UNCHANGED <<active, criConfig, hashes>>

CallPreload(imageList, env) ==
    LET res == Preload(inventory, active, imageList, env)
        pulled == IF Len(res.cmds) <= 1 THEN {}
                  ELSE {addRepoTagToImageName(imageList[k]) :
                          k \in {n \in 1..Len(imageList) : env.failAt = 0 \/ n < env.failAt}}
    IN  /\ call' = Called("Preload", imageList, env, res)
        /\ inventory' = res.inventory
        /\ active' = res.active
        /\ unrestarted' = IF CmdRestart \in Range(res.cmds) /\ res.ret = nil THEN {}
                          ELSE unrestarted \cup pulled
        /\ UNCHANGED <<criConfig, hashes>>

CallEnable(disOthers, cgroupDriver, inUserNamespace, env) ==
    LET res == Enable(inventory, active, disOthers, cgroupDriver, inUserNamespace, env)
        restarted == CmdRestart \in Range(res.cmds) /\ env.restart = "ok"
        pulled == IF CmdPull(PauseImage) \in Range(res.cmds) /\ env.pull
                  THEN {addRepoTagToImageName(PauseImage)} ELSE {}
    IN  /\ call' = Called("Enable",
                          [disOthers |-> disOthers, cgroupDriver |-> cgroupDriver,
                           inUserNamespace |-> inUserNamespace], env, res)
        /\ inventory' = res.inventory
        /\ active' = res.active
        /\ criConfig' = IF StepCRIConfig \in Range(res.cmds)
                        THEN populateCRIConfig(criConfig, SocketPath, env.populateCRIConfig).criConfig
                        ELSE criConfig
        /\ unrestarted' = (IF restarted THEN {} ELSE unrestarted) \cup pulled
        /\ UNCHANGED hashes

CallVersion(rr) ==
    /\ call' = Called("Version", << >>, rr, Version(inventory, active, rr))
    /\ inventory' = Version(inventory, active, rr).inventory
    /\ active' = Version(inventory, active, rr).active
    /\ UNCHANGED <<config, hashes>>

CallRestart(outcome) ==
    /\ call' = Called("Restart", << >>, outcome,
                      Result(Restart(active, outcome).err, <<CmdRestart>>, inventory,
                             Restart(active, outcome).active))
    /\ active' = Restart(active, outcome).active
    /\ unrestarted' = IF outcome = "ok" THEN {} ELSE unrestarted
    /\ UNCHANGED <<inventory, criConfig, hashes>>

CallDisable(outcome) ==
    /\ call' = Called("Disable", << >>, outcome, Disable(inventory, active, outcome))
    /\ active' = Disable(inventory, active, outcome).active
    /\ inventory' = Disable(inventory, active, outcome).inventory
    /\ UNCHANGED <<config, hashes>>

CallActive ==
    /\ call' = Called("Active", << >>, << >>, Active(inventory, active))
    /\ active' = Active(inventory, active).active
    /\ inventory' = Active(inventory, active).inventory
    /\ UNCHANGED <<config, hashes>>

CallImageExists(name, sha, rr) ==
    /\ call' = Called("ImageExists", <<name, sha>>, rr,
                      Result(ImageExists(rr, name, sha), <<CmdDockerImages>>, inventory, active))
    /\ UNCHANGED <<inventory, active, config, hashes>>

CallLoadImage(path) ==
    /\ call' = Called("LoadImage", <<path>>, << >>, LoadImage(inventory, active, path))
    /\ inventory' = LoadImage(inventory, active, path).inventory
    /\ active' = LoadImage(inventory, active, path).active
    /\ UNCHANGED <<config, hashes>>

CallSaveImage(name, path) ==
    /\ call' = Called("SaveImage", <<name, path>>, << >>, SaveImage(inventory, active, name, path))
    /\ inventory' = SaveImage(inventory, active, name, path).inventory
    /\ active' = SaveImage(inventory, active, name, path).active
    /\ UNCHANGED <<config, hashes>>

CallTagImage(source, target) ==
    /\ call' = Called("TagImage", <<source, target>>, << >>,
                      TagImage(inventory, active, source, target))
    /\ inventory' = TagImage(inventory, active, source, target).inventory
    /\ active' = TagImage(inventory, active, source, target).active
    /\ UNCHANGED <<config, hashes>>

CallBuildImage(src, file, tag, push) ==
    /\ call' = Called("BuildImage", <<src, file, tag, push>>, << >>,
                      BuildImage(inventory, active, src, file, tag, push, << >>, << >>))
    /\ inventory' = BuildImage(inventory, active, src, file, tag, push, << >>, << >>).inventory
    /\ active' = BuildImage(inventory, active, src, file, tag, push, << >>, << >>).active
    /\ UNCHANGED <<config, hashes>>

CallPushImage(name) ==
    /\ call' = Called("PushImage", <<name>>, << >>, PushImage(inventory, active, name))
    /\ inventory' = PushImage(inventory, active, name).inventory
    /\ active' = PushImage(inventory, active, name).active
    /\ UNCHANGED <<config, hashes>>

\* a run of porto_version's updateHashFile
CallUpdatePortoHash(version, arch, outcome) ==
    /\ call' = Called("updateHashFile", <<version, arch, "x86_64/package/porto-bin">>, outcome,
                      updateHashFilePorto(portoHash, version, arch, outcome))
    /\ portoHash' = updateHashFilePorto(portoHash, version, arch, outcome).file
    /\ UNCHANGED <<inventory, active, config, portoshimHash>>

\* a run of portoshim_version's updateHashFile
CallUpdatePortoshimHash(version, arch, outcome) ==
    /\ call' = Called("updateHashFile", <<version, arch, "x86_64/package/portoshim-bin">>, outcome,
                      updateHashFilePortoshim(portoshimHash, version, arch, outcome))
    /\ portoshimHash' = updateHashFilePortoshim(portoshimHash, version, arch, outcome).file
    /\ UNCHANGED <<inventory, active, config, portoHash>>

----------------------------------------------------------------------------
(* The matcher applied once to every required list and every inventory *)

InitMatcher ==
    /\ inventory \in Inventories
    /\ active = FALSE
    /\ call = NoCall
    /\ criConfig = ""
    /\ unrestarted = {}
    /\ portoHash = ""
    /\ portoshimHash = ""

NextMatcher ==
    /\ call = NoCall
    /\ \E images \in RequiredLists, outcome \in ImagesOutcomes : ImagesPreloaded(images, outcome)

SpecMatcher == InitMatcher /\ [][NextMatcher]_vars

----------------------------------------------------------------------------
(* Preloading a fresh host *)

InitPreload ==
    /\ inventory = << >>
    /\ active = FALSE
    /\ call = NoCall
    /\ criConfig = ""
    /\ unrestarted = {}
    /\ portoHash = ""
    /\ portoshimHash = ""

NextPreload ==
    \/ \E imageList \in ImageLists : \E env \in PreloadEnvs(imageList) : CallPreload(imageList, env)
    \/ \E images \in ImageLists, outcome \in ImagesOutcomes : ImagesPreloaded(images, outcome)
    \/ \E name \in ImageNames, ok \in BOOLEAN : CallPullImage(name, ok)

SpecPreload == InitPreload /\ [][NextPreload]_vars

----------------------------------------------------------------------------
(* Preload called again and again on a host that nothing else changes *)

NextRetry ==
    \/ \E imageList \in ImageLists : \E env \in PreloadEnvs(imageList) : CallPreload(imageList, env)
    \/ \E images \in ImageLists, outcome \in ImagesOutcomes : ImagesPreloaded(images, outcome)

SpecRetry == InitPreload /\ [][NextRetry]_vars

----------------------------------------------------------------------------
(* Enabling the runtime on a fresh host *)

CgroupDrivers == {"cgroupfs", "systemd"}

InitEnable ==
    /\ inventory = << >>
    /\ active = FALSE
    /\ call = NoCall
    /\ criConfig = ""
    /\ unrestarted = {}
    /\ portoHash = ""
    /\ portoshimHash = ""

NextEnable ==
    \/ \E disOthers \in BOOLEAN, cgroupDriver \in CgroupDrivers, inUserNamespace \in BOOLEAN :
          \E env \in EnableEnvs(disOthers, inUserNamespace) :
              CallEnable(disOthers, cgroupDriver, inUserNamespace, env)
    \/ \E name \in {PauseImage}, ok \in BOOLEAN : CallPullImage(name, ok)

SpecEnable == InitEnable /\ [][NextEnable]_vars

----------------------------------------------------------------------------
(* The service, the image listing and the verbs that are not implemented, *)
(* on a fresh host                                                        *)

\* paths and image names handed to the verbs
Paths == {"", "/tmp/img.tar"}
VerbNames == {"", "img:v1"}

\* what ImageExists is asked for, and what the listing command gives
ExistsNames == {"", "foo", "bar"}
ExistsShas == {"", "ab", "cd"}
ListingResults == [ok : BOOLEAN, stdout : {"", "foo", "foobar ab", "bar cd"}, stderr : {"", "ab"}]

InitVerbs ==
    /\ inventory = << >>
    /\ active = FALSE
    /\ call = NoCall
    /\ criConfig = ""
    /\ unrestarted = {}
    /\ portoHash = ""
    /\ portoshimHash = ""

NextVerbs ==
    \/ \E outcome \in RestartOutcomes : CallRestart(outcome)
    \/ \E outcome \in ForceStopOutcomes : CallDisable(outcome)
    \/ CallActive
    \/ \E images \in ImageLists, outcome \in ImagesOutcomes : ImagesPreloaded(images, outcome)
    \/ \E ok \in BOOLEAN : CallPullImage("img:v1", ok)
    \/ \E name \in ExistsNames, sha \in ExistsShas, rr \in ListingResults :
          CallImageExists(name, sha, rr)
    \/ \E path \in Paths : CallLoadImage(path)
    \/ \E name \in VerbNames, path \in Paths : CallSaveImage(name, path)
    \/ \E source \in VerbNames, target \in VerbNames : CallTagImage(source, target)
    \/ \E src \in Paths, push \in BOOLEAN : CallBuildImage(src, "Dockerfile", "img:v1", push)
    \/ \E name \in VerbNames : CallPushImage(name)

SpecVerbs == InitVerbs /\ [][NextVerbs]_vars

----------------------------------------------------------------------------
(* Version applied once to what `portod version` gave *)

\* the characters of the generated lines: a digit, the dot, a letter, a blank
LineChars == {"1", ".", "a", " "}

\* all lines of at most n characters
RECURSIVE LinesUpTo(_)
LinesUpTo(n) ==
    IF n = 0 THEN {""}
    ELSE LinesUpTo(n - 1) \cup {line \o ch : line \in LinesUpTo(n - 1), ch \in LineChars}

\* lines as portod prints them, and as a shell prints when portod is missing
SampleLines ==
    {"version: 5.3.30-alpha.7  /usr/sbin/portod\n",
     "running: 5.3.30-alpha.7  /usr/sbin/portod\n",
     "version: 15.12.3  /usr/sbin/portod\n",
     "portod: \"version\" not found\n"}

VersionResults ==
    [ok : {TRUE}, stdout : LinesUpTo(MaxLine) \cup SampleLines]
        \cup [ok : {FALSE}, stdout : SampleLines \cup {""}]

InitVersion ==
    /\ inventory = << >>
    /\ active = FALSE
    /\ call = NoCall
    /\ criConfig = ""
    /\ unrestarted = {}
    /\ portoHash = ""
    /\ portoshimHash = ""

NextVersion == call = NoCall /\ \E rr \in VersionResults : CallVersion(rr)

SpecVersion == InitVersion /\ [][NextVersion]_vars

----------------------------------------------------------------------------
(* The version updaters run again and again, release after release *)

\* the release tags the updaters are run for: a pre-release, its release,
\* and the release after it
Versions == {"v1.2-a.1", "v1.2", "v1.3"}
Archs == {"amd64"}

InitHash ==
    /\ inventory = << >>
    /\ active = FALSE
    /\ call = NoCall
    /\ criConfig = ""
    /\ unrestarted = {}
    /\ portoHash = ""
    /\ portoshimHash = ""

NextHash ==
    \/ \E version \in Versions, arch \in Archs, outcome \in HashOutcomes :
          CallUpdatePortoHash(version, arch, outcome)
    \/ \E version \in Versions, arch \in Archs, outcome \in HashOutcomes :
          CallUpdatePortoshimHash(version, arch, outcome)

SpecHash == InitHash /\ [][NextHash]_vars

----------------------------------------------------------------------------
(* Claims about the Inventory Matcher *)

MatcherRan == call.op = "ImagesPreloaded" /\ call.env = "ok"

\* C4 as claimed: the matcher, given a parsed inventory, returns true iff every
\* required image, normalized, equals some inventory tag that was normalized too.
C4_BothNormalized ==
    MatcherRan =>
        (call.ret <=> \A k \in 1..Len(call.args) :
                        \E rt \in TagsOf(inventory) :
                            addRepoTagToImageName(call.args[k]) = addRepoTagToImageName(rt))

\* C4 amended: the matcher, given a parsed inventory, returns true iff every
\* required image, normalized, equals some inventory tag exactly as listed.
C4_RequirementNormalized ==
    MatcherRan =>
        (call.ret <=> \A k \in 1..Len(call.args) :
                        \E rt \in TagsOf(inventory) :
                            addRepoTagToImageName(call.args[k]) = rt)

C4_Witness ==
    /\ MatcherRan
    /\ call.ret = TRUE
    /\ call.args = <<"img:v1", "img:v2">>
    /\ "img:v1" \in TagsOf(inventory)

\* C5: for the empty required list the matcher returns true on every parsed inventory.
C5_EmptyRequired ==
    (MatcherRan /\ call.args = << >>) => call.ret = TRUE

C5_Witness ==
    /\ MatcherRan
    /\ call.args = << >>
    /\ call.ret = TRUE
    /\ Len(inventory) = MaxEntries

\* inv with the repoTag rt put in before position t of entry e
WithTag(inv, e, t, rt) ==
    [inv EXCEPT ![e] = SubSeq(@, 1, t - 1) \o <<rt>> \o SubSeq(@, t, Len(@))]

\* inv with the entry put in before position e
WithEntry(inv, e, entry) ==
    SubSeq(inv, 1, e - 1) \o <<entry>> \o SubSeq(inv, e, Len(inv))

\* the inventories made from inv by adding one repoTag to an entry, or one entry
Grown(inv) ==
    UNION {{WithTag(inv, e, t, rt) : t \in 1..(Len(inv[e]) + 1), rt \in RepoTags} :
           e \in 1..Len(inv)} \cup
    {WithEntry(inv, e, entry) :
        e \in 1..(Len(inv) + 1), entry \in SeqsUpTo(RepoTags, 1)}

\* C7: when the matcher returned true, it returns true on the same required
\* list for every inventory that has one more repoTag or one more entry.
C7_Monotone ==
    (MatcherRan /\ call.ret = TRUE) =>
        \A inv \in Grown(inventory) : portoImagesPreloaded("ok", inv, call.args) = TRUE

C7_Witness ==
    /\ MatcherRan
    /\ call.ret = TRUE
    /\ Len(call.args) = MaxImages
    /\ call.args[1] # call.args[2]
    /\ Len(inventory) = MaxEntries

RECURSIVE Reorderings(_)
\* the sequences that hold the elements of s in some order
Reorderings(s) ==
    IF s = << >> THEN {<< >>}
    ELSE UNION {{<<s[k]>> \o r : r \in Reorderings(SubSeq(s, 1, k - 1) \o SubSeq(s, k + 1, Len(s)))} :
                k \in 1..Len(s)}

\* C8: the matcher returns the same for every order of the required list,
\* every order of the inventory's entries and every order of an entry's repoTags.
C8_OrderIndependent ==
    MatcherRan =>
        /\ \A images \in Reorderings(call.args) :
              portoImagesPreloaded("ok", inventory, images) = call.ret
        /\ \A inv \in Reorderings(inventory) :
              portoImagesPreloaded("ok", inv, call.args) = call.ret
        /\ \A e \in 1..Len(inventory) : \A repoTags \in Reorderings(inventory[e]) :
              portoImagesPreloaded("ok", [inventory EXCEPT ![e] = repoTags], call.args) = call.ret

C8_Witness ==
    /\ MatcherRan
    /\ call.args = <<"img:v1", "img:v2">>
    /\ call.ret = TRUE
    /\ inventory = <<<<"docker.io/img:v2">>, <<"img:v1", "docker.io/img:v1">>>>

----------------------------------------------------------------------------
(* Claims about Preload *)

\* the pulls of the first n images of imageList, in list order
Pulls(imageList, n) == [k \in 1..n |-> CmdPull(imageList[k])]

\* a step that is a call of Preload whose image catalog answered
PreloadStep == call'.op = "Preload" /\ call'.env.kubeadm

C2_PullsThenRestart ==
    [][(/\ PreloadStep
        /\ ~portoImagesPreloaded(call'.env.images, inventory, call'.args)
        /\ call'.env.failAt = 0)
       => call'.cmds = <<CmdImages>> \o Pulls(call'.args, Len(call'.args)) \o <<CmdRestart>>]_vars

C2_Witness ==
    /\ call.op = "Preload"
    /\ call.args = <<"img:v2", "img:v1">>
    /\ call.env.images = "ok"
    /\ call.ret = nil
    /\ call.cmds = <<CmdImages, CmdPull("img:v2"), CmdPull("img:v1"), CmdRestart>>

\* C3: a Preload whose k-th pull is the first to fail returns an error whose
\* message holds the name of the k-th image, having issued the pulls of the
\* first k images and no later pull and no restart.
C3_AbortsOnFirstFailure ==
    [][(/\ PreloadStep
        /\ ~portoImagesPreloaded(call'.env.images, inventory, call'.args)
        /\ call'.env.failAt # 0)
       => (/\ call'.ret # nil
           /\ Contains(call'.ret[1], call'.args[call'.env.failAt])
           /\ call'.cmds = <<CmdImages>> \o Pulls(call'.args, call'.env.failAt)
           /\ active' = active)]_vars

C3_Witness ==
    /\ call.op = "Preload"
    /\ call.args = <<"img:v1", "img:v2">>
    /\ call.env.failAt = 1
    /\ call.ret = <<"pulling image \"img:v1\"", "exit status 1">>
    /\ call.cmds = <<CmdImages, CmdPull("img:v1")>>

\* C6: when the listing command fails or its output does not parse, the
\* matcher returns false for every required list, and Preload goes on to
\* pull: every required image up to the first failing pull and, when none
\* fails, the restart.
C6_UnreadableIsNotPreloaded ==
    /\ (call.op = "ImagesPreloaded" /\ call.env # "ok") => call.ret = FALSE
    /\ (call.op = "Preload" /\ call.env.kubeadm /\ call.env.images # "ok") =>
          call.cmds = <<CmdImages>> \o
                      (IF call.env.failAt = 0
                       THEN Pulls(call.args, Len(call.args)) \o <<CmdRestart>>
                       ELSE Pulls(call.args, call.env.failAt))

C6_Witness ==
    /\ call.op = "Preload"
    /\ call.args = <<"img:v1", "img:v2">>
    /\ call.env.images = "badjson"
    /\ call.ret = nil
    /\ call.cmds = <<CmdImages, CmdPull("img:v1"), CmdPull("img:v2"), CmdRestart>>
    /\ inventory = <<<<"docker.io/img:v2">>, <<"docker.io/img:v1">>>>

----------------------------------------------------------------------------
(* Claims about Enable *)

\* a call of Enable in rootless mode
RootlessEnable == call.op = "Enable" /\ call.args.inUserNamespace

\* C9: an Enable in rootless mode on a kernel below 5.11 returns an error
\* and has done nothing after the hard kernel check: no soft check, no
\* disabling of other runtimes, no CRI socket configuration, no config
\* generation, no IP forwarding, no restart, no pull.
C9_HardGateFailsClosed ==
    (RootlessEnable /\ CheckKernelCompatibility(call.env.kernel, 5, 11) # nil) =>
        /\ call.ret # nil
        /\ call.cmds = <<StepKernel(5, 11)>>

C9_Witness ==
    /\ RootlessEnable
    /\ call.args.disOthers
    /\ call.env.kernel = <<5, 10>>
    /\ call.ret = <<"kernel >= 5.11 is required for rootless mode", "kernel version is too old">>
    /\ call.cmds = <<StepKernel(5, 11)>>

\* C10: an Enable in rootless mode on a kernel of at least 5.11 and below
\* 5.13 issues the same steps, returns the same and leaves the same host as
\* the same call meeting the same outcomes on a kernel of at least 5.13.
C10_SoftGateAdvisory ==
    [][(/\ call'.op = "Enable"
        /\ call'.args.inUserNamespace
        /\ CheckKernelCompatibility(call'.env.kernel, 5, 11) = nil
        /\ CheckKernelCompatibility(call'.env.kernel, 5, 13) # nil)
       => \A kernel \in {k \in Kernels : CheckKernelCompatibility(k, 5, 13) = nil} :
            LET passing == Enable(inventory, active, call'.args.disOthers,
                                  call'.args.cgroupDriver, TRUE,
                                  [call'.env EXCEPT !.kernel = kernel])
            IN  /\ call'.ret = passing.ret
                /\ call'.cmds = passing.cmds
                /\ inventory' = passing.inventory
                /\ active' = passing.active]_vars

C10_Witness ==
    /\ RootlessEnable
    /\ call.env.kernel = <<5, 12>>
    /\ call.ret = nil
    /\ call.cmds[Len(call.cmds)] = CmdPull(PauseImage)
    /\ active
    /\ PauseImage \in TagsOf(inventory)

\* whether seq is an initial part of full
IsPrefix(seq, full) == Len(seq) <= Len(full) /\ SubSeq(full, 1, Len(seq)) = seq

\* the steps of Enable from the CRI socket configuration to the pause image
RuntimeSteps == <<StepCRIConfig, StepPortoConfig, StepIPForwarding, CmdRestart, CmdPull(PauseImage)>>

\* C11: For every Enable that is asked to disable the other runtimes and whose
\* disabling fails, the call goes on to the CRI socket configuration and all
\* later steps, and what it returns, the steps it takes and the host it
\* leaves are those of the same call with the disabling succeeding.
C11_DisableOthersBestEffort ==
    [][(call'.op = "Enable" /\ call'.args.disOthers /\ ~call'.env.disableOthers)
        => LET went == Enable(inventory, active, TRUE, call'.args.cgroupDriver,
                              call'.args.inUserNamespace,
                              [call'.env EXCEPT !.disableOthers = TRUE])
           IN  /\ call'.ret = went.ret
               /\ call'.cmds = went.cmds
               /\ inventory' = went.inventory
               /\ active' = went.active
               /\ \E k \in 1..(Len(call'.cmds) - 1) :
                     /\ call'.cmds[k] = StepDisableOthers
                     /\ call'.cmds[k + 1] = StepCRIConfig]_vars

\* an Enable whose disabling of the other runtimes failed and that returned no error
C11_Witness ==
    /\ call.op = "Enable"
    /\ call.args.disOthers
    /\ ~call.env.disableOthers
    /\ call.ret = nil
    /\ call.cmds[Len(call.cmds)] = CmdPull(PauseImage)

\* the steps of an Enable with the given arguments when no step fails
EnableSteps(args) ==
    (IF args.inUserNamespace THEN <<StepKernel(5, 11), StepKernel(5, 13)>> ELSE << >>)
        \o (IF args.disOthers THEN <<StepDisableOthers>> ELSE << >>)
        \o RuntimeSteps

\* C12: Every Enable takes its steps in the one order kernel checks, disabling
\* of the other runtimes, CRI socket configuration, config generation, IP
\* forwarding, restart, pause image pull, and stops at the first step that
\* fails other than the 5.13 check and the disabling: the pause image is
\* pulled only after a restart that succeeded, and no error is returned only
\* when all steps were taken and the pause image pull succeeded.
C12_FixedOrderAbortsOnFailure ==
    call.op = "Enable" =>
        LET last == call.cmds[Len(call.cmds)]
            gate == call.args.inUserNamespace
                        /\ CheckKernelCompatibility(call.env.kernel, 5, 11) # nil
        IN  /\ call.cmds # << >>
            /\ IsPrefix(call.cmds, EnableSteps(call.args))
            /\ gate => last = StepKernel(5, 11) /\ call.ret # nil
            /\ (~gate /\ ~call.env.populateCRIConfig) => last = StepCRIConfig /\ call.ret # nil
            /\ (~gate /\ call.env.populateCRIConfig /\ ~call.env.enableIPForwarding)
                  => last = StepIPForwarding /\ call.ret # nil
            /\ (~gate /\ call.env.populateCRIConfig /\ call.env.enableIPForwarding
                    /\ call.env.restart # "ok") => last = CmdRestart /\ call.ret # nil
            /\ last = CmdPull(PauseImage) => call.env.restart = "ok" /\ active
            /\ call.ret = nil <=> (call.cmds = EnableSteps(call.args) /\ call.env.pull)

\* an Enable that stopped at a restart that failed, the steps before it taken
C12_Witness ==
    /\ call.op = "Enable"
    /\ call.args.disOthers
    /\ call.env.restart # "ok"
    /\ call.ret # nil
    /\ call.cmds = <<StepDisableOthers, StepCRIConfig, StepPortoConfig, StepIPForwarding, CmdRestart>>

\* the step at which an Enable that returned an error stopped
FailedStep == call.cmds[Len(call.cmds)]

\* the error that the failed step itself gave
FailedStepError ==
    IF FailedStep = StepKernel(5, 11) THEN CheckKernelCompatibility(call.env.kernel, 5, 11)
    ELSE IF FailedStep = StepCRIConfig THEN populateCRIConfig("", SocketPath, FALSE).err
    ELSE IF FailedStep = StepIPForwarding THEN enableIPForwarding(FALSE)
    ELSE IF FailedStep = CmdRestart THEN Restart(FALSE, call.env.restart).err
    ELSE PullImage(<< >>, PauseImage, FALSE).err

\* C13 as stated: every error Enable returns is the error of the step that
\* failed under a message of Enable's naming that step, so that the errors
\* of two different steps differ.
C13_EveryStepWrapped ==
    (call.op = "Enable" /\ call.ret # nil) =>
        /\ Len(call.ret) = Len(FailedStepError) + 1
        /\ Tail(call.ret) = FailedStepError

\* C13: An error Enable returns is the error of the failed step under a
\* message of Enable's only for the 5.11 kernel check and the pause image
\* pull; the errors of the CRI socket configuration, of IP forwarding and of
\* the restart are returned exactly as the step gave them.
C13_WrapsGateAndPauseOnly ==
    (call.op = "Enable" /\ call.ret # nil) =>
        IF FailedStep = StepKernel(5, 11)
        THEN call.ret = Wrap(FailedStepError, "kernel >= 5.11 is required for rootless mode")
        ELSE IF FailedStep = CmdPull(PauseImage)
        THEN call.ret = Wrap(FailedStepError, "pulling pause image")
        ELSE /\ FailedStep \in {StepCRIConfig, StepIPForwarding, CmdRestart}
             /\ call.ret = FailedStepError

\* an Enable that returned the error of the CRI socket configuration as it
\* was, and one that returned the error of the pause image pull under its message
C13_Witness ==
    /\ call.op = "Enable"
    /\ call.ret # nil
    /\ \/ FailedStep = StepCRIConfig /\ call.ret = ExitError
       \/ FailedStep = CmdPull(PauseImage) /\ call.ret = <<"pulling pause image">> \o ExitError

\* C14: When an Enable that returned no error is followed at once by an
\* Enable with the same arguments that returns no error, the second call
\* leaves the host as the first left it: the service running, the CRI
\* configuration as written, the pause image in the inventory once.
C14_EnableIdempotent ==
    [][(call.op = "Enable" /\ call.ret = nil
            /\ call'.op = "Enable" /\ call'.args = call.args /\ call'.ret = nil)
        => /\ inventory' = inventory
           /\ active' = active
           /\ criConfig' = criConfig
           /\ active'
           /\ criConfig' = SocketPath
           /\ addRepoTagToImageName(PauseImage) \in TagsOf(inventory')]_vars

\* the host that every Enable that returned no error leaves, the second of two
\* like the first: service running, configuration written, pause image once
C14_Witness ==
    /\ call.op = "Enable"
    /\ call.ret = nil
    /\ call.cmds[Len(call.cmds)] = CmdPull(PauseImage)
    /\ active
    /\ criConfig = SocketPath
    /\ inventory = <<(<<addRepoTagToImageName(PauseImage)>>)>>
    /\ unrestarted = {addRepoTagToImageName(PauseImage)}

\* the verbs that are not implemented
UnsupportedVerbs == {"LoadImage", "SaveImage", "TagImage", "BuildImage", "PushImage"}

\* C15: Every call of LoadImage, SaveImage, TagImage, BuildImage or
\* PushImage, with any argument and in any state, returns an error, issues no
\* command to the Command Executor or the Service Controller, and leaves the
\* host as it was.
C15_UnsupportedVerbsFail ==
    [][call'.op \in UnsupportedVerbs
        => /\ call'.ret # nil
           /\ call'.cmds = << >>
           /\ UNCHANGED <<inventory, active, criConfig, unrestarted>>]_vars

\* a PushImage of a named image on a host with the service running and an
\* image pulled, which returned the error
C15_Witness ==
    /\ call.op = "PushImage"
    /\ call.args = <<"img:v1">>
    /\ call.ret = <<"not implemented">>
    /\ active
    /\ inventory # << >>

\* whether text has part as a run of consecutive characters
HasSubstring(text, part) ==
    \E i \in 1..(Len(text) + 1), j \in 0..Len(text) : SubSeq(text, i, j) = part

\* C16: ImageExists(name, sha) returns true exactly when the listing command
\* succeeded, its output has name as a substring and, sha not being empty,
\* has sha as a substring; with sha empty the result is that of name alone.
C16_ImageExistsSubstring ==
    call.op = "ImageExists" =>
        LET name == call.args[1]
            sha == call.args[2]
            out == call.env.stdout \o call.env.stderr
        IN  /\ call.cmds = <<CmdDockerImages>>
            /\ call.ret <=> /\ call.env.ok
                            /\ HasSubstring(out, name)
                            /\ sha # "" => HasSubstring(out, sha)
            /\ sha = "" => (call.ret <=> (call.env.ok /\ HasSubstring(out, name)))

\* an ImageExists that found the name and not the sha, and one that found
\* the name in a longer name with no sha asked for
C16_Witness ==
    /\ call.op = "ImageExists"
    /\ call.env.ok
    /\ call.env.stdout = "foobar ab"
    /\ call.env.stderr = ""
    /\ call.args[1] = "bar"
    /\ \/ call.args[2] = "cd" /\ call.ret = FALSE
       \/ call.args[2] = "" /\ call.ret = TRUE

ParsedLine == call.env.stdout

\* where the run of digits that begins at position k ends, k - 1 when there is none
RECURSIVE DigitsEnd(_, _)
DigitsEnd(line, k) ==
    IF CharAt(line, k) \in Digits THEN DigitsEnd(line, k + 1) ELSE k - 1

\* whether a token <digits>.<digits>.<digits> begins at position k, at the
\* first digit of its first group
TokenAt(line, k) ==
    LET a == DigitsEnd(line, k)
        b == DigitsEnd(line, a + 2)
    IN  /\ CharAt(line, k) \in Digits
        /\ CharAt(line, k - 1) \notin Digits
        /\ CharAt(line, a + 1) = "."
        /\ b >= a + 2
        /\ CharAt(line, b + 1) = "."
        /\ CharAt(line, b + 2) \in Digits

\* the positions at which such a token begins
TokenStarts(line) == {k \in 1..Len(line) : TokenAt(line, k)}

\* the first such token of the line up to the first whitespace after it
LeadingToken(line) ==
    LET k == CHOOSE first \in TokenStarts(line) : \A other \in TokenStarts(line) : first <= other
    IN  SubSeq(line, k, NonSpaceEnd(line, k))

\* C18 as stated: for every line with a token <digits>.<digits>.<digits>,
\* the parser returns, with no error, the leading such token from the first
\* digit of its first digit group to before the first whitespace.
C18_ReturnsLeadingToken ==
    (call.op = "Version" /\ call.env.ok /\ TokenStarts(ParsedLine) # {})
        => /\ call.ret.err = nil
           /\ call.ret.version = LeadingToken(ParsedLine)

\* whether a digit is followed by a dot somewhere in the line
HasDigitDot(line) ==
    \E k \in 1..Len(line) : CharAt(line, k) \in Digits /\ CharAt(line, k + 1) = "."

\* whether %q writes the line as it is
PlainLine(line) ==
    \A k \in 1..Len(line) : CharAt(line, k) \notin (Whitespace \cup {"\"", "\\"}) \ {" "}

\* C19: When the version command fails, Version returns its error under
\* "porto check version" and parses nothing.  When it succeeds, Version
\* returns what the parser gives: for a line with no digit followed by a dot
\* an error with the quoted line in it and no version, for any other line a
\* non-empty token and no error.
C19_VersionErrors ==
    call.op = "Version" =>
        /\ call.cmds = <<CmdVersion>>
        /\ ~call.env.ok =>
              /\ call.ret.version = ""
              /\ call.ret.err = <<"porto check version">> \o ExitError
        /\ (call.env.ok /\ ~HasDigitDot(ParsedLine)) =>
              /\ call.ret.version = ""
              /\ Len(call.ret.err) = 1
              /\ HasSubstring(call.ret.err[1], Quoted(ParsedLine))
              /\ PlainLine(ParsedLine) => HasSubstring(call.ret.err[1], ParsedLine)
        /\ (call.env.ok /\ HasDigitDot(ParsedLine)) =>
              /\ call.ret.err = nil
              /\ call.ret.version # ""
              /\ HasSubstring(ParsedLine, call.ret.version)

\* a Version whose command gave a line with no version in it, and one whose
\* command failed with a version in its output
C19_Witness ==
    /\ call.op = "Version"
    /\ \/ /\ call.env.ok
          /\ call.env.stdout = "a 1 .a"
          /\ call.ret.err = <<"unknown version: \"a 1 .a\"">>
       \/ /\ ~call.env.ok
          /\ call.env.stdout = "version: 5.3.30-alpha.7  /usr/sbin/portod\n"
          /\ call.ret.err = <<"porto check version", "exit status 1">>

\* the repoTags a Preload of imageList requires
Required(imageList) == {addRepoTagToImageName(imageList[k]) : k \in 1..Len(imageList)}

\* C20 as stated: after any run of Preload calls on a host nothing else
\* changes, a Preload that returns no error leaves every required image in
\* the inventory and the service restarted successfully since the last pull
\* of a required image by any of the calls, and a further Preload that can
\* read the listing issues no pull.
C20_RetryLeavesRestarted ==
    (call.op = "Preload" /\ call.env.kubeadm /\ call.ret = nil) =>
        /\ Required(call.args) \subseteq TagsOf(inventory)
        /\ Required(call.args) \cap unrestarted = {}
        /\ \A env \in PreloadEnvs(call.args) :
              (env.kubeadm /\ env.images = "ok")
                  => \A k \in 1..Len(call.args) :
                        CmdPull(call.args[k]) \notin Range(Preload(inventory, active, call.args, env).cmds)

\* C21: In every state, a call of Active issues only the query to the
\* Service Controller and returns whether the service runs, a call of
\* ImagesPreloaded issues exactly the one listing command and no pull,
\* remove or restart, and both leave the service and the inventory as they were.
C21_ReadOnlyQueries ==
    [][(call'.op \in {"Active", "ImagesPreloaded"})
        => /\ UNCHANGED <<inventory, active, criConfig, unrestarted>>
           /\ call'.op = "Active" => (call'.cmds = <<CmdActive>> /\ call'.ret = active)
           /\ call'.op = "ImagesPreloaded" => call'.cmds = <<CmdImages>>]_vars

\* an ImagesPreloaded that missed a required image on a host with the
\* service running and another image pulled
C21_Witness ==
    /\ call.op = "ImagesPreloaded"
    /\ call.args = <<"img:v2">>
    /\ call.env = "ok"
    /\ call.ret = FALSE
    /\ active
    /\ inventory = <<(<<"docker.io/img:v1">>)>>

\* how many times part stands in text
Occurrences(text, part) ==
    Cardinality({k \in 1..(Len(text) - Len(part) + 1) :
                    SubSeq(text, k, k + Len(part) - 1) = part})

\* the package a run of updateHashFile was for
HashedPackage == IF call'.args[3] = "x86_64/package/porto-bin" THEN "porto" ELSE "portoshim"

\* the end of the hash file line of the tarball of a version
TarballEnd(package, version, arch) ==
    "  " \o package \o "_focal_" \o version \o "_" \o arch \o ".tgz\n"

\* C22 as stated: every run of updateHashFile that returns no error leaves
\* exactly one sha256 line for the tarball of its version in its hash file:
\* the file as it was when it had such a line already, the file with exactly
\* one such line appended when it had none.
C22_OneLinePerVersion ==
    [][(call'.op = "updateHashFile" /\ call'.ret = nil)
        => LET before == IF HashedPackage = "porto" THEN portoHash ELSE portoshimHash
               after == IF HashedPackage = "porto" THEN portoHash' ELSE portoshimHash'
               line == TarballEnd(HashedPackage, call'.args[1], call'.args[2])
           IN  /\ Occurrences(after, line) = 1
               /\ Occurrences(before, line) >= 1 => after = before
               /\ Occurrences(before, line) = 0 =>
                     /\ Len(after) > Len(before)
                     /\ SubSeq(after, 1, Len(before)) = before
                     /\ Occurrences(after, "\n") = Occurrences(before, "\n") + 1]_vars

====
